---- MODULE Spec2Model ----
(***************************************************************************)
(* marshmallow: the scoped serialization context                           *)
(* (marshmallow/experimental/context.py, marshmallow/context.py) and the   *)
(* hook registration decorators (marshmallow/decorators.py).               *)
(*                                                                         *)
(* The context is one contextvars.ContextVar.  Every logical execution (a  *)
(* thread, or a task running in its own copy of the spawning context) has  *)
(* its own binding of that variable; a Context object is a context manager *)
(* that binds its value on __enter__ and undoes the binding on __exit__    *)
(* through the contextvars.Token it kept.                                  *)
(***************************************************************************)
EXTENDS Integers, Sequences, FiniteSets, TLC

VARIABLES
    impl,      \* which module is in use: "experimental" or "stable"
    alive,     \* the logical executions that exist
    var,       \* var[e]: the ContextVar's binding in execution e, or MISSING
    objs,      \* objs[c]: the Context object c: its fields context and token
    open,      \* open[e]: the scopes execution e has entered and not left, outermost first
    entered,   \* entered[e]: the values execution e itself has passed to __enter__
    scoped,    \* scoped[e]: every enter/exit of e so far was a properly nested scope
    nested,    \* nested[e]: every exit of e so far left the scope e entered last
    paired,    \* paired[e]: every exit of e so far left a scope e had entered
    enters,    \* how many __enter__ calls have been made
    inherited, \* inherited[e]: the binding e started with (a task's copy of its parent's)
    ret,       \* the last call made and what it returned or raised
    hooks,     \* hooks[m]: the __marshmallow_hook__ attribute of method m
    hret,      \* what the last decorator call returned
    ncalls     \* how many decorator calls have been made

ctxvars == <<impl, alive, var, objs, open, entered, scoped, nested, paired, enters,
             inherited, ret>>

hookvars == <<hooks, hret, ncalls>>

vars == <<ctxvars, hookvars>>

----------------------------------------------------------------------------
(* Bounds *)

\* __enter__ calls made in one run (so also the depth of nesting reached).
MaxEnters == 2
\* Decorator calls made in one run.
MaxCalls == 2

----------------------------------------------------------------------------
(* Values *)

Threads == {"t1", "t2"}
Tasks == {"k1", "k2"}
Execs == Threads \cup Tasks
\* The Context objects of the program: c1 = Context("A"), c2 = Context("B"),
\* c3 = Context(None).
Objs == {"c1", "c2", "c3"}

None == "None"
\* The values a caller passes as a context (None is a legal one).
Values == {"A", "B", None}
\* The unbound state of a ContextVar (contextvars' internal MISSING marker).
MISSING == "<missing>"
\* The `...` object, the marker Context.get uses for "no default given".
Ellipsis == "..."
Impls == {"experimental", "stable"}

\* What a call did: a value returned, or the exception raised.
NoError == "ok"
LookupError == "LookupError"
RuntimeError == "RuntimeError"
ValueError == "ValueError"
TypeError == "TypeError"
AttributeError == "AttributeError"

\* The token field of a Context object: not an attribute yet, None, or a Token.
NoAttr == [kind |-> "noattr", ctx |-> "", old |-> MISSING, used |-> FALSE]
NoneToken == [kind |-> "None", ctx |-> "", old |-> MISSING, used |-> FALSE]
Token(e, old) == [kind |-> "Token", ctx |-> e, old |-> old, used |-> FALSE]

\* The value each Context object is constructed with.
ContextOf(c) == CASE c = "c1" -> "A" [] c = "c2" -> "B" [] OTHER -> None

----------------------------------------------------------------------------
(* contextvars, as the two modules use it *)

\* Both variables made without a default.
VarDefault_NoDefault(i) == MISSING

\* ContextVar("context") has no default; ContextVar("context", default=None) has.
VarDefault(i) == IF i = "stable" THEN None ELSE MISSING

\* A single global variable instead of a binding per execution.
ContextVarSet_Global(v, e, value) ==
    [var |-> [x \in DOMAIN v |-> value], token |-> Token(e, v[e])]

\* ContextVar.set(value) in execution e: binds the value in e's context only and
\* returns a Token remembering that context and the binding it replaced.
ContextVarSet(v, e, value) ==
    [var |-> [v EXCEPT ![e] = value], token |-> Token(e, v[e])]

\* A reset that unbinds the variable instead of putting the old binding back.
ContextVarReset_Unbind(v, e, token) ==
    IF token.kind # "Token"
    THEN [var |-> v, token |-> token, err |-> TypeError]
    ELSE IF token.used
    THEN [var |-> v, token |-> token, err |-> RuntimeError]
    ELSE IF token.ctx # e
    THEN [var |-> v, token |-> token, err |-> ValueError]
    ELSE [var |-> [v EXCEPT ![e] = MISSING],
          token |-> [token EXCEPT !.used = TRUE],
          err |-> NoError]

\* A reset that puts back what any Token remembers, used or foreign, in silence.
ContextVarReset_Unchecked(v, e, token) ==
    IF token.kind # "Token"
    THEN [var |-> v, token |-> token, err |-> TypeError]
    ELSE [var |-> [v EXCEPT ![e] = token.old],
          token |-> [token EXCEPT !.used = TRUE],
          err |-> NoError]

\* ContextVar.reset(token) in execution e.  It refuses what is not a Token
\* (TypeError), a Token already used (RuntimeError) and a Token made in another
\* context (ValueError); otherwise it puts back the binding the Token remembers
\* (unbinding the variable when there was none) and marks the Token used.
ContextVarReset(v, e, token) ==
    IF token.kind # "Token"
    THEN [var |-> v, token |-> token, err |-> TypeError]
    ELSE IF token.used
    THEN [var |-> v, token |-> token, err |-> RuntimeError]
    ELSE IF token.ctx # e
    THEN [var |-> v, token |-> token, err |-> ValueError]
    ELSE [var |-> [v EXCEPT ![e] = token.old],
          token |-> [token EXCEPT !.used = TRUE],
          err |-> NoError]

\* A get that keeps the default it falls back to as the binding (a setdefault).
ContextVarGet_SetDefault(v, e, passed, default, vardefault) ==
    IF v[e] # MISSING THEN [var |-> v, val |-> v[e], err |-> NoError]
    ELSE IF passed
    THEN [var |-> [v EXCEPT ![e] = default], val |-> default, err |-> NoError]
    ELSE IF vardefault # MISSING THEN [var |-> v, val |-> vardefault, err |-> NoError]
    ELSE [var |-> v, val |-> MISSING, err |-> LookupError]

\* ContextVar.get([default]) in execution e: the binding; else the default passed
\* to get; else the default of the variable; else LookupError.  It binds nothing.
ContextVarGet(v, e, passed, default, vardefault) ==
    IF v[e] # MISSING THEN [var |-> v, val |-> v[e], err |-> NoError]
    ELSE IF passed THEN [var |-> v, val |-> default, err |-> NoError]
    ELSE IF vardefault # MISSING THEN [var |-> v, val |-> vardefault, err |-> NoError]
    ELSE [var |-> v, val |-> MISSING, err |-> LookupError]

----------------------------------------------------------------------------
(* class Context *)

\* Context.__init__(context).  The experimental class also sets token = None;
\* the stable class leaves the attribute unset until __enter__.
Context_init(i, value) ==
    [context |-> value,
     token |-> IF i = "experimental" THEN NoneToken ELSE NoAttr]

\* An __enter__ that binds the value but does not keep the Token.
Context_enter_TokenDropped(v, o, e) ==
    LET s == ContextVarSet(v, e, o.context)
    IN  [var |-> s.var, obj |-> o]

\* Context.__enter__: self.token = <the variable>.set(self.context)
Context_enter(v, o, e) ==
    LET s == ContextVarSet(v, e, o.context)
    IN  [var |-> s.var, obj |-> [o EXCEPT !.token = s.token]]

\* An __exit__ that restores only when the body ended normally.
Context_exit_OnSuccessOnly(v, o, e, exc) ==
    IF exc THEN [var |-> v, obj |-> o, err |-> NoError]
    ELSE LET r == ContextVarReset(v, e, o.token)
         IN  [var |-> r.var, obj |-> [o EXCEPT !.token = r.token], err |-> r.err]

\* Context.__exit__(*args, **kwargs): <the variable>.reset(self.token).  The
\* arguments (the exception of the body, if any) are not looked at and nothing
\* is returned, so an exception of the body goes on propagating.
Context_exit(v, o, e, exc) ==
    IF o.token.kind = "noattr"
    THEN [var |-> v, obj |-> o, err |-> AttributeError]
    ELSE LET r == ContextVarReset(v, e, o.token)
         IN  [var |-> r.var, obj |-> [o EXCEPT !.token = r.token], err |-> r.err]

\* A get that takes None, not `...`, for "no default given".
Context_get_NoneMarker(i, v, e, default) ==
    IF default # None
    THEN ContextVarGet(v, e, default # Ellipsis, default, VarDefault(i))
    ELSE ContextVarGet(v, e, FALSE, default, VarDefault(i))

\* A get without a default that answers None instead of raising.
Context_get_NoRaise(i, v, e, default) ==
    IF default # Ellipsis
    THEN ContextVarGet(v, e, TRUE, default, VarDefault(i))
    ELSE ContextVarGet(v, e, TRUE, None, VarDefault(i))

\* Context.get.  experimental: get(default=...) passes the default on unless it
\* is the `...` marker.  stable: get() takes no argument.
Context_get(i, v, e, default) ==
    IF i = "experimental"
    THEN IF default # Ellipsis
         THEN ContextVarGet(v, e, TRUE, default, VarDefault(i))
         ELSE ContextVarGet(v, e, FALSE, default, VarDefault(i))
    ELSE ContextVarGet(v, e, FALSE, default, VarDefault(i))

----------------------------------------------------------------------------
(* Bookkeeping of the callers *)

\* The last call: op in execution e, on object obj or with argument arg (given
\* says whether the caller wrote the argument), returned val or raised err.  For an exit: exc says that the body had raised, inner that the
\* scope left was the innermost open one of e, and prev is the binding e had
\* just before the matching enter.
Call(op, e, given, arg, val, err, exc, inner, prev) ==
    [op |-> op, e |-> e, given |-> given, arg |-> arg, val |-> val, err |-> err,
     exc |-> exc, inner |-> inner, prev |-> prev]

NoCall == Call("none", "", FALSE, MISSING, MISSING, NoError, FALSE, FALSE, MISSING)

\* The objects of the scopes execution e has open.
OpenObjs(e) == {open[e][k].obj : k \in 1..Len(open[e])}

\* Object c is the object of a scope open in some execution.
IsOpen(c) == \E e \in Execs : c \in OpenObjs(e)

\* The index in s of the last scope on object c, 0 when there is none.
LastOf(s, c) ==
    LET ks == {k \in 1..Len(s) : s[k].obj = c}
    IN  IF ks = {} THEN 0 ELSE CHOOSE k \in ks : \A j \in ks : j <= k

\* Sequence s without its k-th element.
Without(s, k) == [j \in 1..(Len(s) - 1) |-> IF j < k THEN s[j] ELSE s[j + 1]]

----------------------------------------------------------------------------
(* Operations *)

\* c.__enter__() in execution e: what `with c:` does first.
Enter(e, c) ==
    /\ e \in alive
    /\ enters < MaxEnters
    /\ LET r == Context_enter(var, objs[c], e)
       IN  /\ var' = r.var
           /\ objs' = [objs EXCEPT ![c] = r.obj]
    /\ open' = [open EXCEPT ![e] = Append(@, [obj |-> c, prev |-> var[e]])]
    /\ entered' = [entered EXCEPT ![e] = @ \cup {objs[c].context}]
    /\ scoped' = [x \in Execs |->
                    IF x = e THEN scoped[e] /\ ~IsOpen(c)
                    ELSE scoped[x] /\ c \notin OpenObjs(x)]
    /\ nested' = [x \in Execs |->
                    IF x = e THEN nested[e] /\ \A y \in Execs \ {e} : c \notin OpenObjs(y)
                    ELSE nested[x] /\ c \notin OpenObjs(x)]
    /\ paired' = [x \in Execs |->
                    IF x = e THEN paired[e] /\ ~IsOpen(c)
                    ELSE paired[x] /\ c \notin OpenObjs(x)]
    /\ ret' = NoCall
    /\ UNCHANGED <<impl, alive, inherited, hookvars>>
    /\ enters' = enters + 1

\* c.__exit__(...) in execution e: what `with c:` does when its body is left,
\* normally (exc = FALSE) or by an exception (exc = TRUE).
Exit(e, c, exc) ==
    /\ e \in alive
    /\ LET r == Context_exit(var, objs[c], e, exc)
           k == LastOf(open[e], c)
           inner == k # 0 /\ k = Len(open[e])
       IN  /\ var' = r.var
           /\ objs' = [objs EXCEPT ![c] = r.obj]
           /\ open' = [open EXCEPT ![e] = IF k = 0 THEN @ ELSE Without(@, k)]
           /\ scoped' = [scoped EXCEPT ![e] = @ /\ inner]
           /\ nested' = [nested EXCEPT ![e] = @ /\ inner]
           /\ paired' = [paired EXCEPT ![e] = @ /\ k # 0]
           /\ ret' = Call("exit", e, FALSE, MISSING, MISSING, r.err, exc, inner,
                          IF k = 0 THEN MISSING ELSE open[e][k].prev)
    /\ UNCHANGED <<impl, alive, entered, enters, inherited, hookvars>>

\* Context.get() (given = FALSE) or Context.get(default=x) (given = TRUE) in
\* execution e.  The parameter is declared `default=...`: a call without the
\* argument runs with default bound to the `...` object.  The stable get() has
\* no parameter.
Get(e, given, x) ==
    /\ e \in alive
    /\ impl = "stable" => ~given
    /\ ~given => x = Ellipsis
    /\ LET default == IF given THEN x ELSE Ellipsis
           r == Context_get(impl, var, e, default)
       IN  /\ var' = r.var
           /\ ret' = Call("get", e, given, default, r.val, r.err, FALSE, FALSE, MISSING)
    /\ UNCHANGED <<impl, alive, objs, open, entered, scoped, nested, paired, enters,
                   inherited, hookvars>>

\* A start of a task in an empty context, as a new thread starts.
Spawn_EmptyContext(p, k) ==
    /\ p \in alive
    /\ k \in Tasks \ alive
    /\ alive' = alive \cup {k}
    /\ var' = [var EXCEPT ![k] = MISSING]
    /\ inherited' = [inherited EXCEPT ![k] = MISSING]
    /\ ret' = NoCall
    /\ UNCHANGED <<impl, objs, open, entered, scoped, nested, paired, enters, hookvars>>

\* Execution p starts task k, which runs in a copy of p's context.
Spawn(p, k) ==
    /\ p \in alive
    /\ k \in Tasks \ alive
    /\ alive' = alive \cup {k}
    /\ var' = [var EXCEPT ![k] = var[p]]
    /\ inherited' = [inherited EXCEPT ![k] = var[p]]
    /\ ret' = NoCall
    /\ UNCHANGED <<impl, objs, open, entered, scoped, nested, paired, enters, hookvars>>

----------------------------------------------------------------------------
(* decorators.py: values *)

PRE_DUMP == "pre_dump"
POST_DUMP == "post_dump"
PRE_LOAD == "pre_load"
POST_LOAD == "post_load"
VALIDATES == "validates"
VALIDATES_SCHEMA == "validates_schema"
Tags == {PRE_DUMP, POST_DUMP, PRE_LOAD, POST_LOAD, VALIDATES, VALIDATES_SCHEMA}

\* The functions that get decorated, and None for "no function yet".
Methods == {"m1", "m2"}
NoFn == "None"
FieldNames == {"age", "email"}

\* An argument the caller may leave out: {} when left out, {x} when written.
Omitted == {}
Opt(S) == {Omitted} \cup {{x} : x \in S}
\* The value a parameter is bound to: the argument, or the declared default.
Bind(a, dflt) == IF a = Omitted THEN dflt ELSE CHOOSE x \in a : TRUE

\* **kwargs of set_hook: the keys present map to their values.
Kwargs(po, sk, fld) == [pass_original |-> po, skip_on_field_errors |-> sk, field_name |-> fld]
NoKwargs == Kwargs({}, {}, {})

\* One registration: the tuple (many, kwargs).
Reg(many, kwargs) == [many |-> many, kwargs |-> kwargs]

\* A function's __marshmallow_hook__: no such attribute, None, or the
\* defaultdict(list) from tag to list of registrations (a tag never used reads
\* as the empty list).
EmptyConfig == [t \in Tags |-> <<>>]
NoAttribute == [attr |-> "absent", config |-> EmptyConfig]
NoneAttribute == [attr |-> "None", config |-> EmptyConfig]
HookConfig(config) == [attr |-> "dict", config |-> config]

\* What a call returns: a function, or functools.partial(set_hook, tag=, many=, **kwargs).
Function(fn) == [kind |-> "function", fn |-> fn, tag |-> "", many |-> FALSE, kwargs |-> NoKwargs]
Partial(tag, many, kwargs) == [kind |-> "partial", fn |-> NoFn, tag |-> tag, many |-> many, kwargs |-> kwargs]
Nothing == [kind |-> "nothing", fn |-> NoFn, tag |-> "", many |-> FALSE, kwargs |-> NoKwargs]

----------------------------------------------------------------------------
(* decorators.py: functions.  Each gives the attributes of all functions after
   the call (hooks) and the value returned (ret). *)

\* A set_hook that stores the registration in place of the list of the tag.
set_hook_Replace(h, fn, tag, many, kwargs) ==
    IF fn = NoFn
    THEN [hooks |-> h, ret |-> Partial(tag, many, kwargs)]
    ELSE LET hook_config == IF h[fn].attr = "absent" THEN HookConfig(EmptyConfig) ELSE h[fn]
         IN  [hooks |-> [h EXCEPT ![fn] = HookConfig(
                            [hook_config.config EXCEPT ![tag] = <<Reg(many, kwargs)>>])],
              ret |-> Function(fn)]

\* A set_hook that keeps one list for all the tags of a function.
set_hook_OneListForAllTags(h, fn, tag, many, kwargs) ==
    IF fn = NoFn
    THEN [hooks |-> h, ret |-> Partial(tag, many, kwargs)]
    ELSE LET hook_config == IF h[fn].attr = "absent" THEN HookConfig(EmptyConfig) ELSE h[fn]
         IN  [hooks |-> [h EXCEPT ![fn] = HookConfig(
                            [t \in Tags |-> Append(hook_config.config[tag], Reg(many, kwargs))])],
              ret |-> Function(fn)]

\* A set_hook whose partially bound decorator does not bind `many`.
set_hook_PartialDropsMany(h, fn, tag, many, kwargs) ==
    IF fn = NoFn
    THEN [hooks |-> h, ret |-> Partial(tag, FALSE, kwargs)]
    ELSE LET hook_config == IF h[fn].attr = "absent" THEN HookConfig(EmptyConfig) ELSE h[fn]
         IN  [hooks |-> [h EXCEPT ![fn] = HookConfig(
                            [hook_config.config EXCEPT ![tag] = Append(@, Reg(many, kwargs))])],
              ret |-> Function(fn)]

\* set_hook(fn, tag, many=False, **kwargs): the options form (fn is None) returns
\* functools.partial(set_hook, tag=tag, many=many, **kwargs); otherwise the
\* function gets a defaultdict(list) as __marshmallow_hook__ unless it has the
\* attribute, (many, kwargs) is appended to the list of the tag unless the
\* attribute is None, and the function is returned.
set_hook(h, fn, tag, many, kwargs) ==
    IF fn = NoFn
    THEN [hooks |-> h, ret |-> Partial(tag, many, kwargs)]
    ELSE LET hook_config == IF h[fn].attr = "absent" THEN HookConfig(EmptyConfig) ELSE h[fn]
         IN  IF hook_config.attr # "None"
             THEN [hooks |-> [h EXCEPT ![fn] = HookConfig(
                                [hook_config.config EXCEPT ![tag] = Append(@, Reg(many, kwargs))])],
                   ret |-> Function(fn)]
             ELSE [hooks |-> h, ret |-> Function(fn)]

\* A validates that registers under the tag of the schema validators.
validates_WrongTag(h, field_name) ==
    set_hook(h, NoFn, VALIDATES_SCHEMA, FALSE, Kwargs({}, {}, {field_name}))

\* validates(field_name)
validates(h, field_name) ==
    set_hook(h, NoFn, VALIDATES, FALSE, Kwargs({}, {}, {field_name}))

\* A validates_schema whose skip_on_field_errors defaults to False.
validates_schema_SkipDefaultFalse(h, fn, pass_collection, pass_original, skip_on_field_errors) ==
    set_hook(h, fn, VALIDATES_SCHEMA, Bind(pass_collection, FALSE),
             Kwargs({Bind(pass_original, FALSE)}, {Bind(skip_on_field_errors, FALSE)}, {}))

\* validates_schema(fn=None, pass_collection=False, pass_original=False,
\*                  skip_on_field_errors=True)
validates_schema(h, fn, pass_collection, pass_original, skip_on_field_errors) ==
    set_hook(h, fn, VALIDATES_SCHEMA, Bind(pass_collection, FALSE),
             Kwargs({Bind(pass_original, FALSE)}, {Bind(skip_on_field_errors, TRUE)}, {}))

\* pre_dump(fn=None, pass_collection=False)
pre_dump(h, fn, pass_collection) ==
    set_hook(h, fn, PRE_DUMP, Bind(pass_collection, FALSE), NoKwargs)

\* A post_dump that passes its two flags on in the wrong order.
post_dump_Swapped(h, fn, pass_collection, pass_original) ==
    set_hook(h, fn, POST_DUMP, Bind(pass_original, FALSE),
             Kwargs({Bind(pass_collection, FALSE)}, {}, {}))

\* post_dump(fn=None, pass_collection=False, pass_original=False)
post_dump(h, fn, pass_collection, pass_original) ==
    set_hook(h, fn, POST_DUMP, Bind(pass_collection, FALSE),
             Kwargs({Bind(pass_original, FALSE)}, {}, {}))

\* pre_load(fn=None, pass_collection=False)
pre_load(h, fn, pass_collection) ==
    set_hook(h, fn, PRE_LOAD, Bind(pass_collection, FALSE), NoKwargs)

\* post_load(fn=None, pass_collection=False, pass_original=False)
post_load(h, fn, pass_collection, pass_original) ==
    set_hook(h, fn, POST_LOAD, Bind(pass_collection, FALSE),
             Kwargs({Bind(pass_original, FALSE)}, {}, {}))

\* Calling a partially bound decorator p with fn: set_hook(fn, tag=, many=, **kwargs)
\* with the arguments p has bound.
partial_call(h, p, fn) == set_hook(h, fn, p.tag, p.many, p.kwargs)

----------------------------------------------------------------------------
(* decorators.py: calls.  fn is the function passed, NoFn when none is (the
   options form); an argument left out is Omitted. *)

\* The effect of a call whose outcome is r: the attributes and the value returned.
Returns(r) ==
    /\ ncalls < MaxCalls
    /\ hooks' = r.hooks
    /\ hret' = r.ret
    /\ ncalls' = ncalls + 1
    /\ UNCHANGED ctxvars

\* @validates(field_name): the decorator is made, not yet applied.
Validates(field_name) == Returns(validates(hooks, field_name))

\* @validates_schema, @validates_schema(...), validates_schema(fn, ...)
ValidatesSchema(fn, pc, po, sk) == Returns(validates_schema(hooks, fn, pc, po, sk))

\* @pre_dump, @pre_dump(...), pre_dump(fn, ...)
PreDump(fn, pc) == Returns(pre_dump(hooks, fn, pc))

\* @post_dump, @post_dump(...), post_dump(fn, ...)
PostDump(fn, pc, po) == Returns(post_dump(hooks, fn, pc, po))

\* @pre_load, @pre_load(...), pre_load(fn, ...)
PreLoad(fn, pc) == Returns(pre_load(hooks, fn, pc))

\* @post_load, @post_load(...), post_load(fn, ...)
PostLoad(fn, pc, po) == Returns(post_load(hooks, fn, pc, po))

\* The partially bound decorator just returned is applied to a function, as in
\* `@pre_load(pass_collection=True)` above a def (or it is called with None).
Apply(fn) ==
    /\ hret.kind = "partial"
    /\ Returns(partial_call(hooks, hret, fn))

----------------------------------------------------------------------------
(* Specification *)

Init ==
    /\ impl \in Impls
    /\ alive = Threads
    /\ var = [e \in Execs |-> MISSING]
    /\ objs = [c \in Objs |-> Context_init(impl, ContextOf(c))]
    /\ open = [e \in Execs |-> <<>>]
    /\ entered = [e \in Execs |-> {}]
    /\ scoped = [e \in Execs |-> TRUE]
    /\ nested = [e \in Execs |-> TRUE]
    /\ paired = [e \in Execs |-> TRUE]
    /\ inherited = [e \in Execs |-> MISSING]
    /\ enters = 0
    /\ ret = NoCall
    /\ hooks = [m \in Methods |-> NoAttribute]
    /\ hret = Nothing
    /\ ncalls = 0

\* Two threads, each running in a context of its own.
Next ==
    \/ \E e \in Threads, c \in Objs : Enter(e, c)
    \/ \E e \in Threads, c \in Objs, exc \in BOOLEAN : Exit(e, c, exc)
    \/ \E e \in Threads, given \in BOOLEAN, x \in Values \cup {Ellipsis} : Get(e, given, x)

Spec == Init /\ [][Next]_vars

\* The Context objects the thread and its tasks use.
TaskObjs == {"c1", "c2"}

\* One thread and the tasks started from it, by the thread or by a task; they
\* enter and leave scopes on the objects of TaskObjs, the bodies ending
\* normally, and call get() without a default.
NextTasks ==
    \/ \E e \in {"t1"} \cup Tasks, c \in TaskObjs : Enter(e, c)
    \/ \E e \in {"t1"} \cup Tasks, c \in TaskObjs : Exit(e, c, FALSE)
    \/ \E e \in {"t1"} \cup Tasks : Get(e, FALSE, Ellipsis)
    \/ \E p \in {"t1"} \cup Tasks, k \in Tasks : Spawn(p, k)

TaskSpec == Init /\ [][NextTasks]_vars

\* The decorators of decorators.py, applied while classes are being defined.
HookInit == Init /\ impl = "experimental"

Fns == Methods \cup {NoFn}

HookNext ==
    \/ \E field_name \in FieldNames : Validates(field_name)
    \/ \E fn \in Fns, pc \in Opt(BOOLEAN), po \in Opt(BOOLEAN), sk \in Opt(BOOLEAN) :
          ValidatesSchema(fn, pc, po, sk)
    \/ \E fn \in Fns, pc \in Opt(BOOLEAN) : PreDump(fn, pc)
    \/ \E fn \in Fns, pc \in Opt(BOOLEAN), po \in Opt(BOOLEAN) : PostDump(fn, pc, po)
    \/ \E fn \in Fns, pc \in Opt(BOOLEAN) : PreLoad(fn, pc)
    \/ \E fn \in Fns, pc \in Opt(BOOLEAN), po \in Opt(BOOLEAN) : PostLoad(fn, pc, po)
    \/ \E fn \in Fns : Apply(fn)

HookSpec == HookInit /\ [][HookNext]_vars

----------------------------------------------------------------------------
(* Properties of the scoped context *)

\* The value of the innermost scope execution e has open.
Innermost(e) == objs[open[e][Len(open[e])].obj].context

\* Execution e is inside no scope: it has used properly nested scopes only, has
\* left them all, and did not start inside a scope of a parent.
NoScope(e) == scoped[e] /\ open[e] = <<>> /\ inherited[e] = MISSING

\* Execution e is inside a scope it entered, having used properly nested scopes only.
InScope(e) == scoped[e] /\ open[e] # <<>>

\* What get() without a default gives, for a binding b of execution e.
GetOf(e, b) ==
    LET r == Context_get(impl, [var EXCEPT ![e] = b], e, Ellipsis)
    IN  <<r.val, r.err>>

\* C1 (isolation): whatever the interleaving of the enter, exit and get calls of
\* the two threads, a get() in a thread returns a value this thread itself has
\* entered, or else the outcome of an unset context (the default passed, the
\* default of the variable, or LookupError); a thread's binding is never a value
\* only the other thread entered.
C1_Isolation ==
    /\ \A e \in Threads : var[e] \in entered[e] \cup {MISSING}
    /\ ret.op = "get" =>
          \/ ret.err = NoError /\ ret.val \in entered[ret.e]
          \/ ret.err = NoError /\ ret.given /\ ret.arg # Ellipsis /\ ret.val = ret.arg
          \/ ret.err = NoError /\ VarDefault(impl) # MISSING /\ ret.val = VarDefault(impl)
          \/ ret.err = LookupError /\ ret.val = MISSING

\* Both threads are inside scopes with different values and t1's get() returned t1's.
C1_Witness ==
    /\ ret.op = "get" /\ ret.e = "t1" /\ ret.err = NoError
    /\ open["t1"] # <<>> /\ open["t2"] # <<>>
    /\ var["t2"] \notin {MISSING, var["t1"]}
    /\ ret.val = var["t1"] /\ ret.val \notin entered["t2"]

\* C2 (nesting): in an execution that uses properly nested scopes on distinct
\* Context objects, get() returns the value of the innermost scope entered and
\* not yet left, at every depth; so after an exit it returns the value of the
\* enclosing scope, and after the outermost exit no value is bound.
C2_Nesting ==
    \A e \in Threads :
        /\ InScope(e) => GetOf(e, var[e]) = <<Innermost(e), NoError>>
        /\ NoScope(e) => var[e] = MISSING

\* t1 left an inner scope and is back in the enclosing one, whose value differs
\* from the one just left.
C2_Witness ==
    /\ ret.op = "exit" /\ ret.e = "t1" /\ ret.inner /\ ret.err = NoError
    /\ InScope("t1") /\ ret.prev = Innermost("t1")
    /\ var["t1"] = Innermost("t1")
    /\ \E c \in Objs : objs[c].token.used /\ objs[c].token.ctx = "t1"
                       /\ objs[c].context # var["t1"]

\* C3 (unset context): experimental Context.get() called without a default in an
\* execution that is inside no scope (before its first enter, or after it has
\* left every scope it entered) raises LookupError and returns no value.
C3_GetUnsetRaises ==
    (impl = "experimental" /\ ret.op = "get" /\ ~ret.given /\ NoScope(ret.e))
        => (ret.err = LookupError /\ ret.val = MISSING)

\* get() raised in t1 after t1 had entered and left a scope.
C3_Witness ==
    /\ impl = "experimental" /\ ret.op = "get" /\ ~ret.given /\ ret.e = "t1"
    /\ NoScope("t1") /\ entered["t1"] # {}
    /\ ret.err = LookupError

\* C4 as claimed: experimental Context.get(default=X) never raises; inside no
\* scope it returns X, for any X; inside a scope it returns the scoped value.
C4_Original ==
    (impl = "experimental" /\ ret.op = "get" /\ ret.given) =>
        /\ ret.err = NoError
        /\ NoScope(ret.e) => ret.val = ret.arg
        /\ InScope(ret.e) => ret.val = Innermost(ret.e)

\* C4 (amended): experimental Context.get(default=X) with X any value but the
\* `...` object, None included, never raises; inside no scope it returns X,
\* inside a scope it returns the scoped value and ignores X.  With X the `...`
\* object the call is the call without a default: it returns the scoped value
\* inside a scope and raises LookupError inside none.
C4_GetDefault ==
    (impl = "experimental" /\ ret.op = "get" /\ ret.given) =>
        /\ ret.arg # Ellipsis => ret.err = NoError
        /\ (NoScope(ret.e) /\ ret.arg # Ellipsis) => ret.val = ret.arg
        /\ (NoScope(ret.e) /\ ret.arg = Ellipsis) => ret.err = LookupError
        /\ InScope(ret.e) => (ret.err = NoError /\ ret.val = Innermost(ret.e))

\* get(default=None) returned None in t1 after t1 had entered and left a scope.
C4_Witness ==
    /\ impl = "experimental" /\ ret.op = "get" /\ ret.given /\ ret.e = "t1"
    /\ NoScope("t1") /\ entered["t1"] # {}
    /\ ret.arg = None /\ ret.val = None /\ ret.err = NoError

\* C5 (exception safety): when the body of the innermost scope of an execution
\* that uses properly nested scopes raises, the __exit__ the with statement
\* then calls completes, and get() afterwards gives what it gave just before
\* that scope was entered: the value of the enclosing scope, or the outcome of
\* an unset context.
C5_ExceptionSafety ==
    (ret.op = "exit" /\ ret.exc /\ scoped[ret.e]) =>
        /\ ret.err = NoError
        /\ var[ret.e] = ret.prev
        /\ GetOf(ret.e, var[ret.e]) = GetOf(ret.e, ret.prev)
        /\ open[ret.e] # <<>> => ret.prev = Innermost(ret.e)
        /\ open[ret.e] = <<>> => ret.prev = inherited[ret.e]

\* The body of t1's inner scope raised, and t1 is back at the enclosing scope's
\* value, which differs from the value of the scope that was aborted.
C5_Witness ==
    /\ ret.op = "exit" /\ ret.exc /\ ret.e = "t1" /\ scoped["t1"]
    /\ open["t1"] # <<>> /\ var["t1"] = Innermost("t1")
    /\ \E c \in Objs : objs[c].token.used /\ objs[c].token.ctx = "t1"
                       /\ objs[c].context # var["t1"]

\* C6 (visibility through nested calls): a step of an execution that is neither
\* an enter nor an exit (a get(), at whatever depth of calls below the with
\* statement) changes no binding, no Context object and no scope, and inside a
\* scope it returns the binding, which is the value that was entered.
C6_GetLeavesContext ==
    [][ret'.op = "get" =>
            /\ var' = var /\ objs' = objs /\ open' = open
            /\ var[ret'.e] # MISSING =>
                  (ret'.err = NoError /\ ret'.val = var[ret'.e])
            /\ InScope(ret'.e) => ret'.val = Innermost(ret'.e)]_vars

\* t1 is two scopes deep and a get(default=X) in it returned the inner value, not X.
C6_Witness ==
    /\ ret.op = "get" /\ ret.e = "t1" /\ InScope("t1") /\ Len(open["t1"]) = 2
    /\ ret.given /\ ret.arg # ret.val
    /\ ret.val = Innermost("t1") /\ var["t1"] = ret.val

----------------------------------------------------------------------------
(* Properties of the hook registry *)

\* The registrations of function fn under tag t, before and after a step.
Regs(fn, t) == hooks[fn].config[t]
RegsAfter(fn, t) == hooks'[fn].config[t]

\* In a step, the list of fn under tag t got exactly one more entry, at its end.
Grew(fn, t) ==
    /\ hooks'[fn].attr = "dict"
    /\ Len(RegsAfter(fn, t)) = Len(Regs(fn, t)) + 1
    /\ SubSeq(RegsAfter(fn, t), 1, Len(Regs(fn, t))) = Regs(fn, t)

\* The entry appended in a step to the list of fn under tag t.
Appended(fn, t) == RegsAfter(fn, t)[Len(RegsAfter(fn, t))]

\* The flag a caller expects for a boolean argument: the one written, and the
\* documented default when none was written.
Expected(a, documented) ==
    IF a = {TRUE} THEN TRUE ELSE IF a = {FALSE} THEN FALSE ELSE documented

\* A step that is a registration call on function fn: an entry point called with
\* fn, or the partially bound decorator applied to fn.  The tag is the entry point's.
RegistersUnder(fn, t) ==
    \/ t = PRE_DUMP /\ \E pc \in Opt(BOOLEAN) : PreDump(fn, pc)
    \/ t = POST_DUMP /\ \E pc \in Opt(BOOLEAN), po \in Opt(BOOLEAN) : PostDump(fn, pc, po)
    \/ t = PRE_LOAD /\ \E pc \in Opt(BOOLEAN) : PreLoad(fn, pc)
    \/ t = POST_LOAD /\ \E pc \in Opt(BOOLEAN), po \in Opt(BOOLEAN) : PostLoad(fn, pc, po)
    \/ t = VALIDATES_SCHEMA /\
          \E pc \in Opt(BOOLEAN), po \in Opt(BOOLEAN), sk \in Opt(BOOLEAN) :
              ValidatesSchema(fn, pc, po, sk)
    \/ t = hret.tag /\ Apply(fn)

\* C7 (registration accumulates): every registration call on a method under a
\* tag makes the method's list under that tag exactly one longer and keeps the
\* entries it had, unchanged and in order, as a prefix; a second registration
\* under the same tag is a second entry, not a replacement.
C7_Accumulates ==
    [][\A fn \in Methods, t \in Tags : RegistersUnder(fn, t) => Grew(fn, t)]_vars

\* m1 carries two registrations under one tag, the first made first.
C7_Witness ==
    \E t \in Tags :
        /\ Len(hooks["m1"].config[t]) = 2
        /\ hooks["m1"].config[t][1] # hooks["m1"].config[t][2]
        /\ hret = Function("m1")

\* C8 (collection flag): the registration appended by pre_dump, post_dump,
\* pre_load, post_load or validates_schema has `many` equal to the
\* pass_collection argument written, and FALSE when none was written, in the
\* direct form (the function passed) and in the options form (the decorator
\* made first, bound to that flag, then applied).
C8_CollectionFlag ==
    [][/\ \A fn \in Methods, pc \in Opt(BOOLEAN) :
            /\ PreDump(fn, pc) => Appended(fn, PRE_DUMP).many = Expected(pc, FALSE)
            /\ PreLoad(fn, pc) => Appended(fn, PRE_LOAD).many = Expected(pc, FALSE)
            /\ \A po \in Opt(BOOLEAN) :
                /\ PostDump(fn, pc, po) => Appended(fn, POST_DUMP).many = Expected(pc, FALSE)
                /\ PostLoad(fn, pc, po) => Appended(fn, POST_LOAD).many = Expected(pc, FALSE)
                /\ \A sk \in Opt(BOOLEAN) :
                      ValidatesSchema(fn, pc, po, sk) =>
                          Appended(fn, VALIDATES_SCHEMA).many = Expected(pc, FALSE)
       /\ \A pc \in Opt(BOOLEAN) :
            /\ PreDump(NoFn, pc) => hret'.many = Expected(pc, FALSE)
            /\ PreLoad(NoFn, pc) => hret'.many = Expected(pc, FALSE)
            /\ \A po \in Opt(BOOLEAN) :
                /\ PostDump(NoFn, pc, po) => hret'.many = Expected(pc, FALSE)
                /\ PostLoad(NoFn, pc, po) => hret'.many = Expected(pc, FALSE)
                /\ \A sk \in Opt(BOOLEAN) :
                      ValidatesSchema(NoFn, pc, po, sk) => hret'.many = Expected(pc, FALSE)
       /\ \A fn \in Methods :
            (Apply(fn) /\ hret.tag # VALIDATES) =>
                Appended(fn, hret.tag).many = hret.many]_vars

\* m1 was registered with @pre_load(pass_collection=True) and m2 with a bare @pre_load.
C8_Witness ==
    /\ hooks["m1"].config[PRE_LOAD] = <<Reg(TRUE, NoKwargs)>>
    /\ hooks["m2"].config[PRE_LOAD] = <<Reg(FALSE, NoKwargs)>>

\* C9 (the two calling conventions): in every state of the registry, for every
\* method, tag, flag and options, set_hook(None, tag, many, options) changes no
\* registration and returns a partially bound decorator, and applying that to
\* the method leaves the same registrations as set_hook(fn, tag, many, options)
\* does; both return the function that was passed.
C9_ConventionsAgree ==
    \A fn \in Methods, t \in Tags, many \in BOOLEAN,
       po \in Opt(BOOLEAN), fld \in Opt(FieldNames) :
        LET kwargs == Kwargs(po, IF t = VALIDATES_SCHEMA THEN {TRUE} ELSE {}, fld)
            made == set_hook(hooks, NoFn, t, many, kwargs)
            applied == partial_call(made.hooks, made.ret, fn)
            direct == set_hook(hooks, fn, t, many, kwargs)
        IN  /\ made.hooks = hooks
            /\ made.ret.kind = "partial"
            /\ applied.hooks = direct.hooks
            /\ applied.hooks # hooks
            /\ applied.ret = Function(fn)
            /\ direct.ret = Function(fn)

\* Two calls were made, the options form and the application of the decorator
\* it returned to m1: m1 is returned and has the one registration, many = TRUE.
C9_Witness ==
    /\ hret = Function("m1")
    /\ ncalls = 2
    /\ hooks["m2"] = NoAttribute
    /\ \E t \in Tags :
          /\ Len(hooks["m1"].config[t]) = 1
          /\ hooks["m1"].config[t][1].many
          /\ \A u \in Tags \ {t} : hooks["m1"].config[u] = <<>>

\* A step that calls one of the five entry points that take the function, with fn.
Calls(fn, t) ==
    \/ t = PRE_DUMP /\ \E pc \in Opt(BOOLEAN) : PreDump(fn, pc)
    \/ t = POST_DUMP /\ \E pc \in Opt(BOOLEAN), po \in Opt(BOOLEAN) : PostDump(fn, pc, po)
    \/ t = PRE_LOAD /\ \E pc \in Opt(BOOLEAN) : PreLoad(fn, pc)
    \/ t = POST_LOAD /\ \E pc \in Opt(BOOLEAN), po \in Opt(BOOLEAN) : PostLoad(fn, pc, po)
    \/ t = VALIDATES_SCHEMA /\
          \E pc \in Opt(BOOLEAN), po \in Opt(BOOLEAN), sk \in Opt(BOOLEAN) :
              ValidatesSchema(fn, pc, po, sk)

\* In a step, the lists of fn under the tags other than t stayed as they were.
OtherTagsKept(fn, t) == \A u \in Tags \ {t} : RegsAfter(fn, u) = Regs(fn, u)

\* C10 (the six entry points): pre_dump, post_dump, pre_load, post_load and
\* validates_schema called with a function append exactly one registration to
\* the function's list under their own tag and none under another tag; called
\* without, they register nothing and return a decorator bound to their own
\* tag.  validates(field_name) always returns such a decorator, bound to the tag
\* validates, the flag FALSE and exactly that field_name.  Applying a decorator
\* appends exactly the registration it is bound to, under its tag only.
C10_EntryPoints ==
    [][/\ \A fn \in Methods, t \in Tags :
            Calls(fn, t) => (Grew(fn, t) /\ OtherTagsKept(fn, t))
       /\ \A t \in Tags :
            Calls(NoFn, t) => (hooks' = hooks /\ hret'.kind = "partial" /\ hret'.tag = t)
       /\ \A field_name \in FieldNames :
            Validates(field_name) =>
                /\ hooks' = hooks
                /\ hret'.kind = "partial" /\ hret'.tag = VALIDATES /\ ~hret'.many
                /\ hret'.kwargs = Kwargs({}, {}, {field_name})
       /\ \A fn \in Methods :
            Apply(fn) =>
                /\ Grew(fn, hret.tag) /\ OtherTagsKept(fn, hret.tag)
                /\ Appended(fn, hret.tag) = Reg(hret.many, hret.kwargs)]_vars

\* @validates("age") was applied to m1: its only registration is under the tag
\* validates, for the field age, with the flag FALSE.
C10_Witness ==
    /\ hret = Function("m1")
    /\ hooks["m1"].config[VALIDATES] = <<Reg(FALSE, Kwargs({}, {}, {"age"}))>>
    /\ \A u \in Tags \ {VALIDATES} : hooks["m1"].config[u] = <<>>

\* C11 (options carried faithfully): the registration validates_schema appends,
\* or binds into the decorator it returns, has pass_original and
\* skip_on_field_errors equal to the arguments written, for each of the four
\* combinations, with FALSE for a pass_original left out and TRUE for a
\* skip_on_field_errors left out; post_dump and post_load store pass_original
\* as written, FALSE when left out, and nothing else; applying a decorator stores
\* the options it is bound to.
C11_OptionsFaithful ==
    [][/\ \A fn \in Fns, pc \in Opt(BOOLEAN), po \in Opt(BOOLEAN) :
            LET stored(t) == IF fn = NoFn THEN hret'.kwargs ELSE Appended(fn, t).kwargs
                want == Kwargs({Expected(po, FALSE)}, {}, {})
            IN  /\ PostDump(fn, pc, po) => stored(POST_DUMP) = want
                /\ PostLoad(fn, pc, po) => stored(POST_LOAD) = want
                /\ \A sk \in Opt(BOOLEAN) :
                      ValidatesSchema(fn, pc, po, sk) =>
                          stored(VALIDATES_SCHEMA) =
                              Kwargs({Expected(po, FALSE)}, {Expected(sk, TRUE)}, {})
       /\ \A fn \in Methods :
            Apply(fn) => Appended(fn, hret.tag).kwargs = hret.kwargs]_vars

\* m1 was registered by a bare @validates_schema (the defaults) and m2 by
\* @validates_schema(pass_original=True, skip_on_field_errors=False).
C11_Witness ==
    /\ hret = Function("m2")
    /\ \E many \in BOOLEAN :
          hooks["m1"].config[VALIDATES_SCHEMA] = <<Reg(many, Kwargs({FALSE}, {TRUE}, {}))>>
    /\ \E many \in BOOLEAN :
          hooks["m2"].config[VALIDATES_SCHEMA] = <<Reg(many, Kwargs({TRUE}, {FALSE}, {}))>>

\* C16 (registration frame): a registration call on method m under tag T leaves
\* m's lists under every other tag, and the whole attribute of every other
\* method, as they were; so a method registered under several tags has one
\* list per tag, each in the order of its own registrations.
C16_RegistrationFrame ==
    [][\A fn \in Methods, t \in Tags :
          RegistersUnder(fn, t) =>
              /\ OtherTagsKept(fn, t)
              /\ \A m \in Methods \ {fn} : hooks'[m] = hooks[m]]_vars

\* m1 was registered under pre_load and then under post_load: one entry under
\* each, none under another tag, and m2 has no attribute.
C16_Witness ==
    /\ hret = Function("m1")
    /\ Len(hooks["m1"].config[PRE_LOAD]) = 1
    /\ Len(hooks["m1"].config[POST_LOAD]) = 1
    /\ \A u \in Tags \ {PRE_LOAD, POST_LOAD} : hooks["m1"].config[u] = <<>>
    /\ hooks["m2"] = NoAttribute

----------------------------------------------------------------------------
(* Properties of scopes entered by hand: one object twice, exits out of order *)

\* C12 as claimed (re-entrancy with one Context object): in an execution all of
\* whose exits so far left the scope it entered last, scopes on a Context
\* object that is already entered included, every exit completes without error
\* and puts back the binding the execution had just before the matching enter.
C12_Reentrant ==
    (ret.op = "exit" /\ nested[ret.e]) =>
        (ret.err = NoError /\ var[ret.e] = ret.prev)

\* What experimental get() and get(default=X), X any of the values a caller
\* passes, give in execution e when no value is current: LookupError, and X.
GetsAsUnset(e) ==
    /\ var[e] = MISSING
    /\ impl = "experimental" =>
          /\ GetOf(e, var[e]) = <<MISSING, LookupError>>
          /\ \A X \in Values :
                LET r == Context_get(impl, var, e, X)
                IN  r.val = X /\ r.err = NoError /\ r.var = var

\* C13 as claimed: in an execution that entered Context objects not entered
\* elsewhere and has left every scope it entered, once each and in any order,
\* no value is current: get() raises LookupError and get(default=X) returns X.
C13_Original ==
    \A e \in Threads :
        (paired[e] /\ open[e] = <<>> /\ inherited[e] = MISSING) => GetsAsUnset(e)

\* C13 (amended): in an execution that entered distinct Context objects and has
\* left every scope it entered, once each and in the reverse order of the
\* enters, no value is current: experimental get() raises LookupError and
\* get(default=X) returns X, for X any value but the `...` object.
C13_NoValueAfterScopes ==
    \A e \in Threads :
        (scoped[e] /\ open[e] = <<>> /\ inherited[e] = MISSING) => GetsAsUnset(e)

\* t1 entered c1 and then c2, left c2 and then c1, and no value is current.
C13_Witness ==
    /\ ret.op = "exit" /\ ret.e = "t1" /\ ret.err = NoError
    /\ scoped["t1"] /\ open["t1"] = <<>> /\ entered["t1"] = {"A", "B"}
    /\ objs["c1"].token.used /\ objs["c2"].token.used
    /\ objs["c1"].token.old = MISSING /\ objs["c2"].token.old = "A"
    /\ GetsAsUnset("t1")

\* A step that is an __enter__ or an __exit__ called by execution e.
EnterBy(e) == enters' = enters + 1 /\ Len(open'[e]) = Len(open[e]) + 1
ExitBy(e) == ret'.op = "exit" /\ ret'.e = e

\* The Token Context object c holds cannot be used for a restore by execution e:
\* it has been used already, or an enter of another execution made it.
Unrestorable(c, e) ==
    /\ objs[c].token.kind = "Token"
    /\ objs[c].token.used \/ objs[c].token.ctx # e

\* C14 (a restore that cannot be performed): an __exit__ on a Context object
\* whose Token has already been used for a restore raises RuntimeError, and one
\* whose Token was made by an enter of another execution raises ValueError;
\* either leaves every binding, the caller's included, and the Token as they were.
C14_FailedRestore ==
    [][\A e \in Threads, c \in Objs, exc \in BOOLEAN :
          (Unrestorable(c, e) /\ ExitBy(e) /\ Exit(e, c, exc)) =>
              /\ ret'.err = (IF objs[c].token.used THEN RuntimeError ELSE ValueError)
              /\ var' = var
              /\ objs' = objs]_vars

\* t2, inside a scope of its own, called __exit__ on the object t1 is inside:
\* ValueError, and both threads still see their own values.
C14_Witness ==
    /\ ret.op = "exit" /\ ret.e = "t2" /\ ret.err = ValueError
    /\ var["t2"] = "B" /\ var["t1"] = "A"
    /\ objs["c1"].token.ctx = "t1" /\ ~objs["c1"].token.used
    /\ Len(open["t1"]) = 1 /\ Len(open["t2"]) = 1

\* C17 (the stable variant): marshmallow.context.Context.get() is called
\* without a default and never raises; in an execution inside no scope it
\* returns None, the outcome get() has for an unbound variable being the one
\* it has for a variable bound to None; inside a scope it returns the value
\* entered, as the experimental get() does.
C17_StableGetNone ==
    /\ impl = "stable" =>
          /\ \A e \in Threads :
                /\ GetOf(e, MISSING) = <<None, NoError>>
                /\ GetOf(e, MISSING) = GetOf(e, None)
          /\ ret.op = "get" =>
                /\ ~ret.given
                /\ ret.err = NoError
                /\ NoScope(ret.e) => ret.val = None
    /\ (ret.op = "get" /\ InScope(ret.e)) =>
          (ret.err = NoError /\ ret.val = Innermost(ret.e))

\* The stable get() returned None in t1 after t1 had entered and left a scope
\* with a value that is not None.
C17_Witness ==
    /\ impl = "stable" /\ ret.op = "get" /\ ret.e = "t1"
    /\ NoScope("t1") /\ entered["t1"] # {} /\ None \notin entered["t1"]
    /\ ret.val = None /\ ret.err = NoError

----------------------------------------------------------------------------
(* Properties of tasks *)

\* In a step, the bindings of the executions other than e stayed as they were.
OthersKept(e) == \A x \in Execs \ {e} : var'[x] = var[x]

\* C15 (snapshot inheritance): a task starts with the binding its parent has at
\* that moment, and the start changes no other binding; an enter or exit of an
\* execution, thread or task, changes the binding of no other execution, so
\* none made by a child changes what get() gives in the parent or in a sibling,
\* and none made by the parent after the start changes what the child sees;
\* get() in a task gives the outcome of its own binding, which is the binding
\* of the parent at the start for as long as the task has not entered a scope
\* and again once it has left, innermost first, the scopes it entered.
C15_SnapshotInheritance ==
    [][/\ \A p \in {"t1"} \cup Tasks, k \in Tasks :
            Spawn(p, k) => (var'[k] = var[p] /\ OthersKept(k))
       /\ \A e \in {"t1"} \cup Tasks :
            (EnterBy(e) \/ ExitBy(e)) => OthersKept(e)
       /\ \A k \in Tasks :
            (ret'.op = "get" /\ ret'.e = k) =>
                /\ var' = var
                /\ <<ret'.val, ret'.err>> = GetOf(k, var[k])
                /\ (scoped[k] /\ open[k] = <<>>) => var[k] = inherited[k]]_vars

\* t1 started k1 and k2 inside its scope on c1 and has left that scope; k1 has
\* entered a scope of its own; get() in k2 still returns the value of c1.
C15_Witness ==
    /\ ret.op = "get" /\ ret.e = "k2" /\ ret.err = NoError /\ ret.val = "A"
    /\ inherited["k1"] = "A" /\ inherited["k2"] = "A"
    /\ var["k1"] = "B" /\ open["k1"] # <<>>
    /\ var["t1"] = MISSING /\ open["t1"] = <<>> /\ entered["t1"] = {"A"}

====
